---- MODULE Spec2Model ----
(***************************************************************************)
(* Model of extensions/typescript-language-features/web/typingsInstaller.ts *)
(*                                                                         *)
(* WebTypingsInstallerClient is the object handed to tsserver.  Its        *)
(* constructor starts WebTypingsInstallerServer.initialize, an async       *)
(* function whose promise (this.server) gates every install request and    *)
(* the hand-over of the types registry.  WebTypingsInstallerServer extends  *)
(* ts.server.typingsInstaller.TypingsInstaller; the inherited install /    *)
(* installTypings / executeWithThrottling bookkeeping is modelled as far   *)
(* as the overridden installWorker and sendResponse take part in it.       *)
(*                                                                         *)
(* One step of the model is one run-to-completion piece of JavaScript: a   *)
(* synchronous entry point called by the language service, the part of an  *)
(* async function between two awaits, or one promise reaction.             *)
(***************************************************************************)
EXTENDS Integers, Sequences, FiniteSets, TLC

(***************************************************************************)
(* Bounds                                                                  *)
(***************************************************************************)
\* number of enqueueInstallTypingsRequest calls explored
MaxRequests == 2

\* number of isKnownTypesPackageName calls explored
MaxLookups == 2

\* number of installPackage calls explored
MaxInstallPackageCalls == 1

(***************************************************************************)
(* Package names: a name is a sequence of characters.                      *)
(***************************************************************************)
nA == <<"a">>

nB == <<"b">>

nDot == <<".", "a">>

nUnderscore == <<"_", "a">>

nScoped == <<"@", "a", "/", "b">>

nSlash == <<"a", "/", "b">>

nEmpty == <<>>

\* names the language service asks about in isKnownTypesPackageName
Names == {nA, nB, nDot, nUnderscore, nScoped, nSlash, nEmpty}

\* the unresolved imports a project may come with
ImportSets == {{}, {nA}, {nA, nB}, {nB, nDot}}

\* contents of node_modules/types-registry/index.json (the keys of
\* index.entries) that the initial restore may have materialised
RegistryIndexes == {{}, {nA, nDot}, {nA, nB, nSlash}}

(***************************************************************************)
(* jsTyping.validatePackageNameWorker                                      *)
(***************************************************************************)
maxPackageNameLength == 214

\* characters that encodeURIComponent leaves alone
URISafe == {"a", "b", ".", "_"}

\* validatePackageNameWorker(packageName, /*supportScopedPackage*/ false)
validateUnscoped(packageName) ==
    IF packageName = <<>> THEN "EmptyName"
    ELSE IF Len(packageName) > maxPackageNameLength THEN "NameTooLong"
    ELSE IF packageName[1] = "." THEN "NameStartsWithDot"
    ELSE IF packageName[1] = "_" THEN "NameStartsWithUnderscore"
    ELSE IF \E i \in 1..Len(packageName) : packageName[i] \notin URISafe
         THEN "NameContainsNonURISafeCharacters"
    ELSE "Ok"

\* positions of "/" in a name
Slashes(packageName) == {i \in 1..Len(packageName) : packageName[i] = "/"}

\* the name matches /^@([^/]+)\/([^/]+)$/
IsScopedShape(packageName) ==
    /\ Len(packageName) >= 4
    /\ packageName[1] = "@"
    /\ Cardinality(Slashes(packageName)) = 1
    /\ \A i \in Slashes(packageName) : i > 2 /\ i < Len(packageName)

validatePackageNameWorker(packageName, supportScopedPackage) ==
    IF packageName = <<>> THEN "EmptyName"
    ELSE IF Len(packageName) > maxPackageNameLength THEN "NameTooLong"
    ELSE IF packageName[1] = "." THEN "NameStartsWithDot"
    ELSE IF packageName[1] = "_" THEN "NameStartsWithUnderscore"
    ELSE IF supportScopedPackage /\ IsScopedShape(packageName)
         THEN LET s == CHOOSE i \in Slashes(packageName) : TRUE
                  scope == SubSeq(packageName, 2, s - 1)
                  pkg == SubSeq(packageName, s + 1, Len(packageName))
              IN  IF validateUnscoped(scope) # "Ok" THEN validateUnscoped(scope)
                  ELSE validateUnscoped(pkg)
    ELSE validateUnscoped(packageName)

(***************************************************************************)
(* State                                                                   *)
(***************************************************************************)
VARIABLES
    initPc,              \* position of WebTypingsInstallerServer.initialize
    pkgJsonBefore,       \* the cache root manifest before construction
    pkgJson,             \* the cache root manifest
    indexJson,           \* node_modules/types-registry/index.json: <<>> or <<entries>>
    typesRegistry,       \* WebTypingsInstallerServer.typesRegistry (keys)
    serverThen,          \* reactions registered on this.server, in order
    requestedRegistry,   \* WebTypingsInstallerClient.requestedRegistry
    typesRegistryCache,  \* which Map the client's typesRegistryCache refers to
    projectService,      \* WebTypingsInstallerClient.projectService is set
    known,               \* the last isKnownTypesPackageName call
    lookups,             \* number of isKnownTypesPackageName calls so far
    enqueued,            \* number of enqueueInstallTypingsRequest calls so far
    imports,             \* per request: the typings discovered for it
    pc,                  \* per request: where its processing stands
    requestIdOf,         \* per request: the requestId given to installWorker
    packagesOf,          \* per request: packageNames given to installWorker
    cwdOf,               \* per request: cwd given to installWorker
    fault,               \* per request: which awaited call of installWorker failed
    completedWith,       \* per request: the values passed to onRequestCompleted
    pendingRunRequests,  \* TypingsInstaller.pendingRunRequests
    inFlightRequestCount,\* TypingsInstaller.inFlightRequestCount
    installRunCount,     \* TypingsInstaller.installRunCount
    missingTypingsSet,   \* TypingsInstaller.missingTypingsSet
    packageNameToTypingLocation, \* TypingsInstaller.packageNameToTypingLocation (keys)
    responses,           \* every response passed to sendResponse, with its handling
    unhandled,           \* origins of promise rejections nobody handles
    cacheRoot,           \* what installs have put into the cache root
    cacheRootAtStart,    \* per request: the cache root when installWorker was called
    installPackageResults \* how the promises returned by installPackage settled

vars == <<initPc, pkgJsonBefore, pkgJson, indexJson, typesRegistry, serverThen,
          requestedRegistry, typesRegistryCache, projectService, known,
          lookups, enqueued, imports, pc, requestIdOf, packagesOf, cwdOf,
          fault, completedWith, pendingRunRequests, inFlightRequestCount,
          installRunCount, missingTypingsSet, packageNameToTypingLocation,
          responses, unhandled, cacheRoot, cacheRootAtStart,
          installPackageResults>>

Requests == 1..MaxRequests

\* the two directories an install could be pointed at
globalTypingsCacheLocation == "globalTypingsCache"

projectRootPath == "projectRoot"

(***************************************************************************)
(* Pure parts of the client and of initialize                              *)
(***************************************************************************)
\* an initialize that writes the minimal manifest unconditionally
initializeManifest_overwrite(before) == "{\"private\":true}"

\* initialize, lines 152-155: a manifest is written only when none exists
initializeManifest(before) ==
    IF before = "absent" THEN "{\"private\":true}" ELSE before

\* initialize, lines 161-166: the registry gets one entry per index entry
buildRegistry_empty(entries) == {}

buildRegistry(entries) == {packageName \in Names : packageName \in entries}

\* the keys of the Map that this.typesRegistryCache refers to
CacheKeys(cacheRef, registry) == IF cacheRef = "server" THEN registry ELSE {}

\* isKnownTypesPackageName without the validity check
isKnownResult_noValidation(packageName, requested, cache) ==
    IF requested THEN packageName \in cache ELSE FALSE

\* isKnownTypesPackageName answering from the name alone once requested
isKnownResult_noHas(packageName, requested, cache) ==
    IF validatePackageNameWorker(packageName, TRUE) # "Ok" THEN FALSE
    ELSE requested

\* isKnownTypesPackageName answering optimistically on the first call
isKnownResult_firstTrue(packageName, requested, cache) ==
    IF validatePackageNameWorker(packageName, TRUE) # "Ok" THEN FALSE
    ELSE IF requested THEN packageName \in cache ELSE TRUE

\* the value isKnownTypesPackageName returns
isKnownResult(packageName, requested, cache) ==
    IF validatePackageNameWorker(packageName, TRUE) # "Ok" THEN FALSE
    ELSE IF requested THEN packageName \in cache
    ELSE FALSE

\* isKnownTypesPackageName reaches lines 99-100 (registers the hand-over)
isKnownTriggers(packageName, requested) ==
    /\ validatePackageNameWorker(packageName, TRUE) = "Ok"
    /\ ~requested

\* the cache root before any install: nothing but the manifest of
\* initialize and the types-registry package
EmptyCacheRoot == [devDependencies |-> {}, nodeModules |-> {}]

NoLookup ==
    [called |-> FALSE, name |-> nEmpty, result |-> FALSE, first |-> FALSE,
     initPc |-> "resolveProject", cacheRef |-> "own"]

(***************************************************************************)
(* Initial state: the client has been constructed, initialize has run up   *)
(* to its first await (pm.resolveProject).                                 *)
(***************************************************************************)
Init ==
    /\ pkgJsonBefore \in {"absent", "existing"}
    /\ pkgJson = initializeManifest(pkgJsonBefore)
    /\ initPc = "resolveProject"
    /\ indexJson = <<>>
    /\ typesRegistry = {}
    /\ serverThen = <<>>
    /\ requestedRegistry = FALSE
    /\ typesRegistryCache = "own"
    /\ projectService = FALSE
    /\ known = NoLookup
    /\ lookups = 0
    /\ enqueued = 0
    /\ imports = [r \in Requests |-> {}]
    /\ pc = [r \in Requests |-> "none"]
    /\ requestIdOf = [r \in Requests |-> 0]
    /\ packagesOf = [r \in Requests |-> {}]
    /\ cwdOf = [r \in Requests |-> "none"]
    /\ fault = [r \in Requests |-> "none"]
    /\ completedWith = [r \in Requests |-> <<>>]
    /\ pendingRunRequests = <<>>
    /\ inFlightRequestCount = 0
    /\ installRunCount = 1
    /\ missingTypingsSet = {}
    /\ packageNameToTypingLocation = {}
    /\ responses = <<>>
    /\ unhandled = {}
    /\ cacheRoot = EmptyCacheRoot
    /\ cacheRootAtStart = [r \in Requests |-> EmptyCacheRoot]
    /\ installPackageResults = <<>>

clientVars == <<requestedRegistry, typesRegistryCache, projectService, known, lookups,
                installPackageResults>>

cacheVars == <<cacheRoot, cacheRootAtStart>>

requestVars == <<enqueued, imports, pc, requestIdOf, packagesOf, cwdOf, fault,
                 completedWith>>

installerVars == <<pendingRunRequests, inFlightRequestCount, installRunCount,
                   missingTypingsSet, packageNameToTypingLocation, responses>>

(***************************************************************************)
(* WebTypingsInstallerServer.initialize after its first await              *)
(***************************************************************************)
\* await pm.resolveProject(...) settles (line 156)
InitializeResolveProject(ok) ==
    /\ initPc = "resolveProject"
    /\ initPc' = IF ok THEN "restore" ELSE "rejected"
    /\ unhandled' = IF ok THEN unhandled ELSE unhandled \cup {"server"}
    /\ UNCHANGED <<pkgJsonBefore, pkgJson, indexJson, typesRegistry, serverThen>>
    /\ UNCHANGED <<clientVars, requestVars, installerVars, cacheVars>>

\* await resolved.restore() fails (line 159), or readJson throws (line 163)
InitializeRestoreFails ==
    /\ initPc = "restore"
    /\ initPc' = "rejected"
    /\ unhandled' = unhandled \cup {"server"}
    /\ UNCHANGED <<pkgJsonBefore, pkgJson, indexJson, typesRegistry, serverThen>>
    /\ UNCHANGED <<clientVars, requestVars, installerVars, cacheVars>>

\* await resolved.restore() succeeds; lines 161-168 build the server
InitializeRestore(entries) ==
    /\ initPc = "restore"
    /\ initPc' = "resolved"
    /\ indexJson' = <<entries>>
    /\ typesRegistry' = buildRegistry(entries)
    /\ UNCHANGED <<pkgJsonBefore, pkgJson, serverThen, unhandled>>
    /\ UNCHANGED <<clientVars, requestVars, installerVars, cacheVars>>

(***************************************************************************)
(* Synchronous entry points of WebTypingsInstallerClient                   *)
(***************************************************************************)
\* isKnownTypesPackageName(packageName), lines 88-102
isKnownTypesPackageName(packageName) ==
    /\ lookups < MaxLookups
    /\ lookups' = lookups + 1
    /\ known' = [called |-> TRUE,
                 name |-> packageName,
                 result |-> isKnownResult(packageName, requestedRegistry,
                                CacheKeys(typesRegistryCache, typesRegistry)),
                 first |-> isKnownTriggers(packageName, requestedRegistry),
                 initPc |-> initPc,
                 cacheRef |-> typesRegistryCache]
    /\ IF isKnownTriggers(packageName, requestedRegistry)
       THEN /\ requestedRegistry' = TRUE
            /\ serverThen' = Append(serverThen, [kind |-> "registry", req |-> 0])
       ELSE UNCHANGED <<requestedRegistry, serverThen>>
    /\ UNCHANGED <<initPc, pkgJsonBefore, pkgJson, indexJson, typesRegistry, unhandled,
                   typesRegistryCache, projectService, installPackageResults>>
    /\ UNCHANGED <<requestVars, installerVars, cacheVars>>

\* enqueueInstallTypingsRequest(p, typeAcquisition, unresolvedImports), lines 104-108
enqueueInstallTypingsRequest(unresolvedImports) ==
    /\ enqueued < MaxRequests
    /\ enqueued' = enqueued + 1
    /\ imports' = [imports EXCEPT ![enqueued + 1] = unresolvedImports]
    /\ pc' = [pc EXCEPT ![enqueued + 1] = "queued"]
    /\ serverThen' = Append(serverThen, [kind |-> "install", req |-> enqueued + 1])
    /\ UNCHANGED <<initPc, pkgJsonBefore, pkgJson, indexJson, typesRegistry, unhandled>>
    /\ UNCHANGED <<requestIdOf, packagesOf, cwdOf, fault, completedWith>>
    /\ UNCHANGED <<clientVars, installerVars, cacheVars>>

\* attach(projectService), lines 110-112
attach ==
    /\ ~projectService
    /\ projectService' = TRUE
    /\ UNCHANGED <<initPc, pkgJsonBefore, pkgJson, indexJson, typesRegistry, serverThen,
                   unhandled, requestedRegistry, typesRegistryCache, known, lookups,
                   installPackageResults>>
    /\ UNCHANGED <<requestVars, installerVars, cacheVars>>

\* a reaction that would run whatever became of the promise
thenRuns_always(state) == TRUE

\* this.server.then(f), lines 100 and 107: f runs only once initialize has
\* returned the server
thenRuns(state) == state = "resolved"

\* an installPackage that quietly does nothing
installPackageBody_ignore == "return"

\* the body of installPackage, line 83
installPackageBody == "throw"

\* installPackage(options), lines 82-84: an async function, so the throw of
\* its body is the rejection of the promise the caller gets
installPackage ==
    /\ Len(installPackageResults) < MaxInstallPackageCalls
    /\ installPackageResults' =
          Append(installPackageResults,
                 IF installPackageBody = "throw" THEN "rejected" ELSE "resolved")
    /\ UNCHANGED <<initPc, pkgJsonBefore, pkgJson, indexJson, typesRegistry, serverThen,
                   unhandled, requestedRegistry, typesRegistryCache, projectService,
                   known, lookups>>
    /\ UNCHANGED <<requestVars, installerVars, cacheVars>>

\* the reaction s => this.typesRegistryCache = s.typesRegistry (line 100)
ServerThenRegistry ==
    /\ thenRuns(initPc)
    /\ serverThen # <<>>
    /\ Head(serverThen).kind = "registry"
    /\ serverThen' = Tail(serverThen)
    /\ typesRegistryCache' = "server"
    /\ UNCHANGED <<initPc, pkgJsonBefore, pkgJson, indexJson, typesRegistry, unhandled,
                   requestedRegistry, projectService, known, lookups,
                   installPackageResults>>
    /\ UNCHANGED <<requestVars, installerVars, cacheVars>>

(***************************************************************************)
(* Responses and the client's response handler                             *)
(***************************************************************************)
ActionKinds == {"action::packageInstalled", "action::invalidate", "action::set"}

EventKinds == {"event::beginInstallTypes", "event::endInstallTypes"}

Response(kind, eventId, packages, success) ==
    [kind |-> kind, eventId |-> eventId, packages |-> packages, success |-> success]

\* the switch of handleResponse, lines 65-77
handleResponseBody(response, service) ==
    IF response.kind \in ActionKinds
    THEN IF service THEN "forwarded" ELSE "throw"
    ELSE IF response.kind \in EventKinds THEN "ignored"
    ELSE "throw"

\* handleResponse is declared async (line 64): whatever its body throws
\* becomes the rejection of the promise it returns
handleResponse(response, service) ==
    IF handleResponseBody(response, service) = "throw" THEN "rejected"
    ELSE handleResponseBody(response, service)

\* a sendResponse that passes on nothing but action responses
sendResponse_actionsOnly(log, response, service) ==
    IF response.kind \in EventKinds THEN log
    ELSE Append(log, [response |-> response,
                      handling |-> handleResponse(response, service)])

\* sendResponse, lines 197-199, and the arrow function of line 52: the
\* response goes to handleResponse and the promise it returns is dropped
sendResponse(log, response, service) ==
    Append(log, [response |-> response,
                 handling |-> handleResponse(response, service)])

\* the rejections of handleResponse promises recorded in a log
Rejections(log) ==
    IF \E i \in DOMAIN log : log[i].handling = "rejected"
    THEN {"handleResponse"} ELSE {}

(***************************************************************************)
(* The inherited TypingsInstaller, as configured by the constructor        *)
(***************************************************************************)
\* the throttleLimit argument of super(...), line 136: Infinity
throttleLimit == [finite |-> FALSE, value |-> 0]

LessThanLimit(count, limit) == ~limit.finite \/ count < limit.value

\* a request that names the project's own root as its cache path
requestCachePath_projectRoot == projectRootPath

\* createInstallTypingsRequest(p, typeAcquisition, unresolvedImports), line
\* 106: no cachePath argument is given
requestCachePath == "undefined"

\* install: installTypings gets req.cachePath || this.globalCachePath, and
\* the global cache path is the one handed down by lines 54, 149, 168, 136
installCwd ==
    IF requestCachePath # "undefined" THEN requestCachePath
    ELSE globalTypingsCacheLocation

\* JsTyping.discoverTypings: typings already located in the cache are not new
discoverTypings(unresolvedImports, cached) == unresolvedImports \ cached

\* filterTypings: names recorded as missing, invalid names, names the
\* registry does not have and typings already cached are left out
filterTypings(typingsToInstall, missing, registry, cached) ==
    {t \in typingsToInstall :
        /\ t \notin missing
        /\ validatePackageNameWorker(t, TRUE) = "Ok"
        /\ t \in registry
        /\ t \notin cached}

\* filterTypings records the invalid names it meets as missing
filterTypingsMissing(typingsToInstall, missing) ==
    missing \cup {t \in typingsToInstall :
                    t \notin missing /\ validatePackageNameWorker(t, TRUE) # "Ok"}

\* executeWithThrottling: starts pending requests, oldest first, while the
\* number in flight is below the limit
RECURSIVE executeWithThrottling(_, _, _)
executeWithThrottling(count, pending, started) ==
    IF LessThanLimit(count, throttleLimit) /\ pending # <<>>
    THEN executeWithThrottling(count + 1,
                               SubSeq(pending, 1, Len(pending) - 1),
                               started \cup {pending[Len(pending)]})
    ELSE [count |-> count, pending |-> pending, started |-> started]

\* the reaction s => s.install(req) (line 107): TypingsInstaller.install up
\* to and including the synchronous part of installWorker (lines 178-184)
ServerThenInstall(watch) ==
    /\ thenRuns(initPc)
    /\ serverThen # <<>>
    /\ Head(serverThen).kind = "install"
    /\ serverThen' = Tail(serverThen)
    /\ LET r == Head(serverThen).req
           newTypingNames == discoverTypings(imports[r], packageNameToTypingLocation)
           log1 == IF watch
                   THEN sendResponse(responses,
                            Response("action::watchTypingLocations", 0, {}, TRUE),
                            projectService)
                   ELSE responses
           filtered == filterTypings(newTypingNames, missingTypingsSet,
                                     typesRegistry, packageNameToTypingLocation)
           requestId == installRunCount
           run == executeWithThrottling(inFlightRequestCount,
                                        <<r>> \o pendingRunRequests, {})
       IN  /\ missingTypingsSet' = filterTypingsMissing(newTypingNames, missingTypingsSet)
           /\ IF filtered = {}
              THEN /\ responses' = sendResponse(log1,
                                     Response("action::set", 0, {}, TRUE),
                                     projectService)
                   /\ pc' = [pc EXCEPT ![r] = "set"]
                   /\ UNCHANGED <<requestIdOf, packagesOf, cwdOf, pendingRunRequests,
                                  inFlightRequestCount, installRunCount,
                                  cacheRootAtStart>>
              ELSE /\ responses' = sendResponse(log1,
                                     Response("event::beginInstallTypes", requestId,
                                              filtered, TRUE),
                                     projectService)
                   /\ installRunCount' = installRunCount + 1
                   /\ requestIdOf' = [requestIdOf EXCEPT ![r] = requestId]
                   /\ packagesOf' = [packagesOf EXCEPT ![r] = filtered]
                   /\ cwdOf' = [cwdOf EXCEPT ![r] = installCwd]
                   /\ pendingRunRequests' = run.pending
                   /\ inFlightRequestCount' = run.count
                   /\ pc' = [q \in Requests |->
                               IF q \in run.started THEN "resolveProject"
                               ELSE IF q = r THEN "pending"
                               ELSE pc[q]]
                   /\ cacheRootAtStart' = [q \in Requests |->
                               IF q \in run.started THEN cacheRoot
                               ELSE cacheRootAtStart[q]]
    /\ unhandled' = unhandled \cup Rejections(responses')
    /\ UNCHANGED <<initPc, pkgJsonBefore, pkgJson, indexJson, typesRegistry,
                   packageNameToTypingLocation, enqueued, imports, fault,
                   completedWith, cacheRoot>>
    /\ UNCHANGED clientVars

(***************************************************************************)
(* installWorker, lines 177-191                                            *)
(***************************************************************************)
\* a catch block that lets the failure go
installWorkerCatch_rethrow == "rethrow"

\* a catch block that starts the install again
installWorkerCatch_retry == "retry"

\* what the catch block of lines 187-189 does with a failure
installWorkerCatch == "onRequestCompleted(false)"

\* an installWorker that reports success without restoring
afterResolveProject_complete == "onRequestCompleted(true)"

\* what installWorker does once resolveProject has succeeded, line 185
afterResolveProject == "await resolved.restore()"

\* a successful resolved.restore() (line 185) of a project resolved with
\* addPackages: packageNames, packageType: DevDependency (lines 181-184):
\* the packages are in the manifest and in node_modules
restore(cache, packageNames) ==
    [devDependencies |-> cache.devDependencies \cup packageNames,
     nodeModules |-> cache.nodeModules \cup packageNames]

\* The callback executeWithThrottling hands to installWorker, called with
\* ok: it releases the in-flight slot, runs the request's completion
\* (SetTypings on success, EndInstallTypes in every case) and starts what
\* is pending.
OnRequestCompleted(r, ok) ==
    LET log1 == IF ok
                THEN sendResponse(responses,
                         Response("action::set", 0, packagesOf[r], TRUE),
                         projectService)
                ELSE responses
        run == executeWithThrottling(inFlightRequestCount - 1,
                                     pendingRunRequests, {})
    IN  /\ responses' = sendResponse(log1,
                            Response("event::endInstallTypes", requestIdOf[r],
                                     packagesOf[r], ok),
                            projectService)
        /\ completedWith' = [completedWith EXCEPT ![r] = Append(@, ok)]
        /\ missingTypingsSet' = IF ok THEN missingTypingsSet
                                ELSE missingTypingsSet \cup packagesOf[r]
        /\ packageNameToTypingLocation' =
              IF ok THEN packageNameToTypingLocation \cup packagesOf[r]
              ELSE packageNameToTypingLocation
        /\ inFlightRequestCount' = run.count
        /\ pendingRunRequests' = run.pending
        /\ pc' = [q \in Requests |->
                    IF q = r THEN (IF ok THEN "completed" ELSE "failed")
                    ELSE IF q \in run.started THEN "resolveProject"
                    ELSE pc[q]]
        /\ cacheRootAtStart' = [q \in Requests |->
                    IF q \in run.started THEN cacheRoot'
                    ELSE cacheRootAtStart[q]]
        /\ unhandled' = unhandled \cup Rejections(responses')
        /\ UNCHANGED installRunCount

\* The same callback called with true and throwing while it locates the
\* installed typings, after the packages in located have been recorded: its
\* finally block still sends EndInstallTypes, and the throw lands in the catch
\* block of installWorker (line 187), which calls the callback with false.
OnRequestCompletedThrows(r, located) ==
    LET log1 == sendResponse(responses,
                    Response("event::endInstallTypes", requestIdOf[r],
                             packagesOf[r], TRUE),
                    projectService)
        run == executeWithThrottling(inFlightRequestCount - 2,
                                     pendingRunRequests, {})
    IN  IF installWorkerCatch = "onRequestCompleted(false)"
        THEN /\ responses' = sendResponse(log1,
                                Response("event::endInstallTypes", requestIdOf[r],
                                         packagesOf[r], FALSE),
                                projectService)
             /\ completedWith' = [completedWith EXCEPT ![r] = @ \o <<TRUE, FALSE>>]
             /\ missingTypingsSet' = missingTypingsSet \cup packagesOf[r]
             /\ packageNameToTypingLocation' = packageNameToTypingLocation \cup located
             /\ inFlightRequestCount' = run.count
             /\ pendingRunRequests' = run.pending
             /\ pc' = [q \in Requests |->
                         IF q = r THEN "failed"
                         ELSE IF q \in run.started THEN "resolveProject"
                         ELSE pc[q]]
             /\ cacheRootAtStart' = [q \in Requests |->
                         IF q \in run.started THEN cacheRoot'
                         ELSE cacheRootAtStart[q]]
             /\ unhandled' = unhandled \cup Rejections(responses')
             /\ UNCHANGED installRunCount
        ELSE /\ responses' = log1
             /\ completedWith' = [completedWith EXCEPT ![r] = Append(@, TRUE)]
             /\ packageNameToTypingLocation' = packageNameToTypingLocation \cup located
             /\ inFlightRequestCount' = inFlightRequestCount - 1
             /\ pc' = [pc EXCEPT ![r] = "abandoned"]
             /\ unhandled' = unhandled \cup {"installWorker"}
             /\ UNCHANGED <<missingTypingsSet, pendingRunRequests, installRunCount,
                            cacheRootAtStart>>

\* a failure inside the try block of installWorker
InstallWorkerFails(r, stage) ==
    /\ fault' = [fault EXCEPT ![r] = stage]
    /\ UNCHANGED cacheRoot
    /\ IF installWorkerCatch = "onRequestCompleted(false)"
       THEN OnRequestCompleted(r, FALSE)
       ELSE IF installWorkerCatch = "retry"
       THEN /\ pc' = [pc EXCEPT ![r] = "resolveProject"]
            /\ UNCHANGED <<completedWith, installerVars, unhandled, cacheRootAtStart>>
       ELSE /\ pc' = [pc EXCEPT ![r] = "abandoned"]
            /\ unhandled' = unhandled \cup {"installWorker"}
            /\ UNCHANGED <<completedWith, installerVars, cacheRootAtStart>>

\* await this.packageManager.resolveProject(...) settles (line 181);
\* on success resolved.restore() is called (line 185)
InstallWorkerResolveProject(r, ok) ==
    /\ pc[r] = "resolveProject"
    /\ IF ok
       THEN IF afterResolveProject = "await resolved.restore()"
            THEN /\ pc' = [pc EXCEPT ![r] = "restore"]
                 /\ UNCHANGED <<fault, completedWith, installerVars, unhandled,
                                cacheVars>>
            ELSE /\ UNCHANGED <<fault, cacheRoot>>
                 /\ OnRequestCompleted(r, TRUE)
       ELSE InstallWorkerFails(r, "resolveProject")
    /\ UNCHANGED <<initPc, pkgJsonBefore, pkgJson, indexJson, typesRegistry, serverThen,
                   enqueued, imports, requestIdOf, packagesOf, cwdOf>>
    /\ UNCHANGED clientVars

\* await resolved.restore() settles (line 185); on success
\* onRequestCompleted(true) is called (line 186)
InstallWorkerRestore(r, ok) ==
    /\ pc[r] = "restore"
    /\ IF ok
       THEN /\ cacheRoot' = restore(cacheRoot, packagesOf[r])
            /\ OnRequestCompleted(r, TRUE)
            /\ UNCHANGED fault
       ELSE InstallWorkerFails(r, "restore")
    /\ UNCHANGED <<initPc, pkgJsonBefore, pkgJson, indexJson, typesRegistry, serverThen,
                   enqueued, imports, requestIdOf, packagesOf, cwdOf>>
    /\ UNCHANGED clientVars

\* await resolved.restore() succeeds and onRequestCompleted(true) (line 186)
\* throws: the catch block of line 187 runs
InstallWorkerCompletionThrows(r, located) ==
    /\ pc[r] = "restore"
    /\ cacheRoot' = restore(cacheRoot, packagesOf[r])
    /\ OnRequestCompletedThrows(r, located)
    /\ UNCHANGED <<initPc, pkgJsonBefore, pkgJson, indexJson, typesRegistry, serverThen,
                   enqueued, imports, requestIdOf, packagesOf, cwdOf, fault>>
    /\ UNCHANGED clientVars

(***************************************************************************)
(* Specifications                                                          *)
(***************************************************************************)
\* the steps of initialize
InitializeNext ==
    \/ \E ok \in BOOLEAN : InitializeResolveProject(ok)
    \/ InitializeRestoreFails
    \/ \E entries \in RegistryIndexes : InitializeRestore(entries)

\* registry lookups and the hand-over of the registry
LookupNext ==
    \/ \E packageName \in Names : isKnownTypesPackageName(packageName)
    \/ ServerThenRegistry

\* install requests and their processing
InstallNext ==
    \/ \E unresolvedImports \in ImportSets :
          enqueueInstallTypingsRequest(unresolvedImports)
    \/ attach
    \/ installPackage
    \/ \E watch \in BOOLEAN : ServerThenInstall(watch)
    \/ \E r \in Requests, ok \in BOOLEAN : InstallWorkerResolveProject(r, ok)
    \/ \E r \in Requests, ok \in BOOLEAN : InstallWorkerRestore(r, ok)
    \/ \E r \in Requests :
          \E located \in (SUBSET packagesOf[r]) \ {packagesOf[r]} :
              InstallWorkerCompletionThrows(r, located)

Next == InitializeNext \/ LookupNext \/ InstallNext

\* the whole installer
Spec == Init /\ [][Next]_vars

\* the registry side alone: initialize, lookups, hand-over
LookupSpec == Init /\ [][InitializeNext \/ LookupNext]_vars

\* the install side alone: initialize, requests, installs
InstallSpec == Init /\ [][InitializeNext \/ InstallNext]_vars

\* the promises of the package manager settle and promise reactions run
Progress ==
    \/ InitializeNext
    \/ \E watch \in BOOLEAN : ServerThenInstall(watch)
    \/ \E r \in Requests, ok \in BOOLEAN : InstallWorkerResolveProject(r, ok)
    \/ \E r \in Requests, ok \in BOOLEAN : InstallWorkerRestore(r, ok)
    \/ \E r \in Requests :
          \E located \in (SUBSET packagesOf[r]) \ {packagesOf[r]} :
              InstallWorkerCompletionThrows(r, located)

FairInstallSpec == InstallSpec /\ WF_vars(Progress)

(***************************************************************************)
(* Properties                                                              *)
(***************************************************************************)
\* an installWorker execution is active for request r
Active(r) == pc[r] \in {"resolveProject", "restore"}

\* installWorker has been called for request r
Started(r) == pc[r] \in {"resolveProject", "restore", "completed", "failed", "abandoned"}

\* the processing of request r is over
Finished(r) == pc[r] \in {"completed", "failed", "set"}

Valid(packageName) == validatePackageNameWorker(packageName, TRUE) = "Ok"

\* the indices of the log entries holding a response of the given kind and id
Emitted(kind, eventId) ==
    {i \in DOMAIN responses :
        /\ responses[i].response.kind = kind
        /\ responses[i].response.eventId = eventId}

\* C1: at most one installWorker execution is active at any instant
C1_AtMostOneInstallActive ==
    Cardinality({r \in Requests : Active(r)}) <= 1

\* C2: isKnownTypesPackageName never returns true for a name that fails the
\* validity check, whatever the registry state and contents
C2_InvalidNameNeverKnown ==
    (known.called /\ ~Valid(known.name)) => ~known.result

\* C2 witness: an invalid name that is a key of the handed-over registry was looked up
C2_Witness ==
    /\ known.called
    /\ ~Valid(known.name)
    /\ known.cacheRef = "server"
    /\ known.name \in typesRegistry

\* C3: every call made before the registry has finished loading returns
\* false; the hand-over is registered once, by the first call with a valid
\* name, and that call returns false
C3_FalseBeforeLoaded ==
    /\ (known.called /\ known.initPc # "resolved") => ~known.result
    /\ (known.called /\ known.first) => (Valid(known.name) /\ ~known.result)
    /\ (known.called /\ Valid(known.name)) => requestedRegistry
    /\ Cardinality({i \in DOMAIN serverThen : serverThen[i].kind = "registry"})
         = IF requestedRegistry /\ typesRegistryCache = "own" THEN 1 ELSE 0

\* C3 witness: a valid name was looked up, not for the first time, while
\* initialize was still running
C3_Witness ==
    /\ known.called
    /\ Valid(known.name)
    /\ ~known.first
    /\ known.initPc \in {"resolveProject", "restore"}

\* C4: after the registry load has failed, every call returns false
C4_FalseAfterLoadFailure ==
    (known.called /\ known.initPc = "rejected") => ~known.result

\* C4 witness: a valid name was looked up after the load failed, the
\* registry having been requested by an earlier call
C4_Witness ==
    /\ known.called
    /\ known.initPc = "rejected"
    /\ Valid(known.name)
    /\ ~known.first

\* C5: once the index has loaded and the hand-over has run, a call returns
\* true exactly when the name is valid and a key of the loaded index
C5_KnownIffValidAndIndexed ==
    (known.called /\ known.initPc = "resolved" /\ known.cacheRef = "server")
        => (known.result <=> (Valid(known.name) /\ known.name \in indexJson[1]))

\* C5 witness: a call after the hand-over returned true
C5_Witness ==
    /\ known.called
    /\ known.cacheRef = "server"
    /\ known.result

\* C6: requests are started in submission order, and an earlier request's
\* install is over before a later request's install starts
C6_FifoSerialized ==
    \A r1, r2 \in Requests :
        (r1 < r2 /\ Started(r2)) => (pc[r1] # "queued" /\ ~Active(r1))

\* C7: under fair scheduling every accepted request eventually reaches
\* Completed or Failed, also when initialize fails
C7_EveryRequestFinishes ==
    \A r \in Requests : [](pc[r] = "queued" => <>Finished(r))

\* the success flags of the EndInstallTypes responses of request r, in the
\* order they were emitted
EndFlags(r) ==
    LET IsEndOf(e) == /\ e.response.kind = "event::endInstallTypes"
                      /\ e.response.eventId = requestIdOf[r]
        ends == SelectSeq(responses, IsEndOf)
    IN  [i \in 1..Len(ends) |-> ends[i].response.success]

C9_InstallWorkerNeverRaises ==
    /\ "installWorker" \notin unhandled
    /\ \A r \in Requests :
          fault[r] # "none" => (pc[r] = "failed" /\ completedWith[r] = <<FALSE>>)

\* C9 witness: restore has failed for one request and resolveProject for another
C9_Witness ==
    \E r1, r2 \in Requests :
        /\ fault[r1] = "restore"
        /\ fault[r2] = "resolveProject"

\* C10: action responses are forwarded, Begin/End events are ignored, and
\* any other kind is an error raised to the emitter
C10_ExhaustiveHandling ==
    \A i \in DOMAIN responses :
        LET kind == responses[i].response.kind
            handling == responses[i].handling
        IN  /\ kind \in ActionKinds => handling # "ignored"
            /\ kind \in EventKinds => handling = "ignored"
            /\ kind \notin (ActionKinds \cup EventKinds) => handling = "thrown"

\* restore has written the packages of request r into the cache root
Restored(r) == completedWith[r] # <<>> /\ completedWith[r][1]

\* the imports of request r that are valid, registered and not yet located
\* in the cache
Installable(r) ==
    {t \in imports[r] :
        Valid(t) /\ t \in typesRegistry /\ t \notin packageNameToTypingLocation}

\* C11: when resolveProject or restore fails, the request ends with
\* EndInstallTypes{success: false} and the cache root is as it was when the
\* request was started
C11_FailureLeavesCacheUntouched ==
    [][\A r \in Requests :
          (pc[r] # "failed" /\ pc'[r] = "failed" /\ fault'[r] # "none") =>
              /\ cacheRoot' = cacheRootAtStart[r]
              /\ \E j \in DOMAIN responses' :
                    responses'[j].response =
                        Response("event::endInstallTypes", requestIdOf[r],
                                 packagesOf[r], FALSE)]_vars

\* C12: two requests for the same package set leave the cache as one install
\* of that set would, and the set is not written twice or by two installs
\* at once
C12_IdempotentInstall ==
    \A r1, r2 \in Requests :
        (r1 < r2 /\ imports[r1] = imports[r2]) =>
            /\ ~(/\ pc[r1] = "restore" \/ Restored(r1)
                 /\ pc[r2] = "restore" \/ Restored(r2)
                 /\ packagesOf[r1] \cap packagesOf[r2] # {})
            /\ (Finished(r1) /\ Finished(r2)) =>
                  (cacheRoot.nodeModules \cap imports[r1])
                      \in {{}, packagesOf[r1], packagesOf[r2]}

\* C13: installPackage is always rejected, and the call changes nothing
\* else: no request is queued, no install started, no response emitted
C13_InstallPackageRejected ==
    /\ [](\A i \in DOMAIN installPackageResults : installPackageResults[i] = "rejected")
    /\ [][installPackageResults' # installPackageResults =>
            UNCHANGED <<initPc, pkgJsonBefore, pkgJson, indexJson, typesRegistry,
                        serverThen, requestedRegistry, typesRegistryCache,
                        projectService, known, lookups, requestVars, installerVars,
                        unhandled, cacheVars>>]_vars

\* C13 witness: installPackage was called while an install was in flight
C13_Witness ==
    /\ installPackageResults # <<>>
    /\ \E r \in Requests : Active(r)

C15_SuccessAfterRestore ==
    \A r \in Requests :
        Restored(r) =>
            /\ fault[r] = "none"
            /\ packagesOf[r] \subseteq cacheRoot.nodeModules
            /\ packagesOf[r] \subseteq cacheRoot.devDependencies

\* C15 witness: an install has been reported as successful
C15_Witness == \E r \in Requests : pc[r] = "completed" /\ packagesOf[r] # {}

\* C16: the cwd given to installWorker, and by it to resolveProject, is the
\* global typings cache location, never the project's root
C16_InstallsIntoGlobalCache ==
    \A r \in Requests :
        (Started(r) \/ pc[r] = "pending") =>
            (cwdOf[r] = globalTypingsCacheLocation /\ cwdOf[r] # projectRootPath)

\* C16 witness: an installWorker execution is awaiting resolveProject
C16_Witness == \E r \in Requests : pc[r] = "resolveProject"

\* C17: when initialize calls resolveProject, a cache root without a
\* manifest has got the minimal one, and an existing manifest is untouched
C17_ManifestBeforeResolve ==
    initPc = "resolveProject" =>
        /\ pkgJsonBefore = "absent" => pkgJson = "{\"private\":true}"
        /\ pkgJsonBefore # "absent" => pkgJson = pkgJsonBefore

\* C17 witness: initialize awaits resolveProject on a cache root that had no manifest
C17_Witness ==
    /\ initPc = "resolveProject"
    /\ pkgJsonBefore = "absent"
    /\ pkgJson # "absent"

\* C18: onRequestCompleted is called exactly once per installWorker
\* execution that has ended, and never twice
C18_CompletedExactlyOnce ==
    \A r \in Requests :
        /\ Len(completedWith[r]) <= 1
        /\ pc[r] \in {"completed", "failed"} => Len(completedWith[r]) = 1

\* C19: no request is processed, and no installWorker execution starts,
\* before initialize has completed successfully; the restore of initialize
\* never overlaps an install
C19_NoInstallBeforeInitialized ==
    /\ \A r \in Requests : pc[r] \notin {"none", "queued"} => initPc = "resolved"
    /\ ~(initPc \in {"resolveProject", "restore"} /\ \E r \in Requests : Active(r))

\* C19 witness: a request made while initialize is restoring is being held back
C19_Witness ==
    /\ initPc = "restore"
    /\ \E r \in Requests : pc[r] = "queued"

\* C20: every action response emitted reaches updateTypingsForProject, in
\* emission order, whether attach came before or after it
C20_ActionResponsesForwarded ==
    \A i \in DOMAIN responses :
        responses[i].response.kind \in ActionKinds =>
            responses[i].handling = "forwarded"

====
